---- MODULE Spec2Model ----
(***************************************************************************)
(* A model of python-furaffinity: the text normaliser clean() and the file *)
(* reference FAFile of furaffinity/misc.py, the error classifier           *)
(* FASubmission.check_errors of furaffinity/submission.py and the session  *)
(* client FurAffinity of furaffinity/main.py.                              *)
(*                                                                         *)
(* Strings that the code takes apart (texts given to clean, paths, urls)   *)
(* are sequences of one-character strings.  The library is synchronous and *)
(* single threaded: each component has its own specification in which one  *)
(* call is in flight at a time.                                            *)
(***************************************************************************)
EXTENDS Integers, Sequences, FiniteSets, TLC

VARIABLES
    \* ---- misc.clean ----
    text,          \* the argument `text` of clean
    safe,          \* the argument `safe`
    separator,     \* the argument `separator`
    cleaned,       \* the string clean returned (empty before the call)
    clean_pc,      \* "ready" before the call of clean, "done" after it
    \* ---- FASubmission / check_errors ----
    submission,    \* the FASubmission object: [id, soup]
    sub_exc,       \* what check_errors did: NotCalled, NoError or the error raised
    \* ---- misc.FAFile ----
    fs,            \* the file system: path -> [exists, data]
    fafile,        \* the FAFile object: [_url, _local_path]
    file_pc,       \* where the call in flight on the FAFile stands
    dl,            \* the locals of the download call in flight
    hashed,        \* what the last calculate_hash call did
    net,           \* the urls requested by the call in flight, in order
    downloaded,    \* history: the path the last completed download was renamed to
    \* ---- main.FurAffinity ----
    logged_in,     \* self.logged_in
    cookies,       \* self.session.cookies: cookie name -> value
    c_pc,          \* where the client call in flight stands
    call,          \* the arguments and locals of the client call in flight
    log,           \* the requests and sleeps of the call in flight, in order
    login_ok_seen  \* history: some login_cookies call had check_login return True

cleanVars == <<text, safe, separator, cleaned, clean_pc>>
subVars   == <<submission, sub_exc>>
fileVars  == <<fs, fafile, file_pc, dl, hashed, net, downloaded>>
clientVars == <<logged_in, cookies, c_pc, call, log, login_ok_seen>>
vars      == <<cleanVars, subVars, fileVars, clientVars>>

\* what an action of one component leaves alone
notClean  == <<subVars, fileVars, clientVars>>
notSub    == <<cleanVars, fileVars, clientVars>>
notFile   == <<cleanVars, subVars, clientVars>>
notClient == <<cleanVars, subVars, fileVars>>

NotCalled == "NotCalled"
None      == "None"

-----------------------------------------------------------------------------
(* Generic helpers on sequences.                                           *)

\* s without its first element
Tail1(s) == SubSeq(s, 2, Len(s))

\* s without its last element
Front(s) == SubSeq(s, 1, Len(s) - 1)

\* all sequences over S of length at most n
SeqUpTo(S, n) == UNION {[1..k -> S] : k \in 0..n}

-----------------------------------------------------------------------------
(* misc.clean                                                              *)

\* Bound: the longest text given to clean.
MaxTextLen == 5

\* the characters texts are made of: two characters the safe class keeps, one
\* it strips, and the whitespace characters space, tab and newline
Chars == {"a", "-", "!", " ", "\t", "\n"}

\* str.isspace for the characters of the model (str.strip() and str.split()
\* without arguments use the same whitespace test)
Whitespace == {" ", "\t", "\n", "\r"}

isspace(c) == c \in Whitespace

\* the character class [0-9a-zA-Z-.,_ ] of the regular expression in clean
SafeClass ==
    {"0", "1", "2", "3", "4", "5", "6", "7", "8", "9"} \cup
    {"a", "b", "c", "d", "e", "f", "g", "h", "i", "j", "k", "l", "m",
     "n", "o", "p", "q", "r", "s", "t", "u", "v", "w", "x", "y", "z"} \cup
    {"A", "B", "C", "D", "E", "F", "G", "H", "I", "J", "K", "L", "M",
     "N", "O", "P", "Q", "R", "S", "T", "U", "V", "W", "X", "Y", "Z"} \cup
    {"-", ".", ",", "_", " "}

\* re.sub(r"[^0-9a-zA-Z-.,_ ]", '', s): drop every character outside the class
RECURSIVE re_sub_unsafe(_)
re_sub_unsafe(s) ==
    IF s = <<>> THEN <<>>
    ELSE IF s[1] \in SafeClass THEN <<s[1]>> \o re_sub_unsafe(Tail1(s))
         ELSE re_sub_unsafe(Tail1(s))

\* str.lstrip(): drop leading whitespace
RECURSIVE lstrip(_)
lstrip(s) ==
    IF s # <<>> /\ isspace(s[1]) THEN lstrip(Tail1(s)) ELSE s

\* str.rstrip(): drop trailing whitespace
RECURSIVE rstrip(_)
rstrip(s) ==
    IF s # <<>> /\ isspace(s[Len(s)]) THEN rstrip(Front(s)) ELSE s

\* str.strip()
strip(s) == rstrip(lstrip(s))

\* str.split() without arguments, as CPython scans: skip a run of whitespace,
\* then collect characters up to the next whitespace character. `cur` is the
\* token being collected and `out` the tokens found so far.
RECURSIVE split_scan(_, _, _)
split_scan(s, cur, out) ==
    IF s = <<>> THEN (IF cur = <<>> THEN out ELSE Append(out, cur))
    ELSE IF isspace(s[1])
         THEN split_scan(Tail1(s), <<>>, IF cur = <<>> THEN out ELSE Append(out, cur))
         ELSE split_scan(Tail1(s), Append(cur, s[1]), out)

\* str.split(" "): cut at every single space, keeping empty tokens
RECURSIVE split_space_scan(_, _, _)
split_space_scan(s, cur, out) ==
    IF s = <<>> THEN Append(out, cur)
    ELSE IF s[1] = " "
         THEN split_space_scan(Tail1(s), <<>>, Append(out, cur))
         ELSE split_space_scan(Tail1(s), Append(cur, s[1]), out)

split_on_space(s) == split_space_scan(s, <<>>, <<>>)

split(s) == split_scan(s, <<>>, <<>>)

\* sep.join(tokens)
RECURSIVE join(_, _)
join(sep, tokens) ==
    IF tokens = <<>> THEN <<>>
    ELSE IF Len(tokens) = 1 THEN tokens[1]
         ELSE tokens[1] \o sep \o join(sep, Tail1(tokens))

\* clean(text, safe=False, separator=" ")
clean(t, sf, sep) ==
    LET t1 == IF sf THEN re_sub_unsafe(t) ELSE t
    IN  join(sep, split(strip(t1)))

Texts == SeqUpTo(Chars, MaxTextLen)

Separators == {<<" ">>, <<"_">>}

CleanInit ==
    /\ text \in Texts
    /\ safe \in BOOLEAN
    /\ separator \in Separators
    /\ cleaned = <<>>
    /\ clean_pc = "ready"

CleanOff ==
    /\ text = <<>>
    /\ safe = FALSE
    /\ separator = <<" ">>
    /\ cleaned = <<>>
    /\ clean_pc = "ready"

\* one call of clean on the drawn arguments
CleanCall ==
    /\ clean_pc = "ready"
    /\ cleaned' = clean(text, safe, separator)
    /\ clean_pc' = "done"
    /\ UNCHANGED <<text, safe, separator>>
    /\ UNCHANGED notClean

-----------------------------------------------------------------------------
(* FASubmission.check_errors                                               *)

SYSTEM_ERROR == "System Error"
IP_BANNED    == "Your IP address has been banned."
MATURE       == "This submission contains Mature or Adult content"
NOT_ALLOWED  == "You are not allowed to view this image"
FILLER       == "This is a test file I made for foobar!"

\* the title strings a page may carry
Titles == {SYSTEM_ERROR, "None", "Test / File by Fakeartist -- Fur Affinity [dot] net"}

\* the text fragments a page body may carry
Sentences == {IP_BANNED, MATURE, NOT_ALLOWED, FILLER}

\* a fetched submission page: its title element and the text of its body
SubmissionPages == [title : Titles, body : SUBSET Sentences]

\* `marker in str(self.soup)`: the serialised page holds the title and the body
InSoup(marker, soup) == marker = soup.title \/ marker \in soup.body

NoError == "NoError"

\* check_errors with the maturity check ahead of the IP-ban check
check_errors_reordered(soup) ==
    IF soup.title = SYSTEM_ERROR THEN "SubmissionNotFoundError"
    ELSE IF InSoup(MATURE, soup) THEN "MaturityError"
    ELSE IF InSoup(IP_BANNED, soup) THEN "IPBanError"
    ELSE IF InSoup(NOT_ALLOWED, soup) THEN "AccessError"
    ELSE NoError

\* FASubmission.check_errors: the error raised, or NoError
check_errors(soup) ==
    IF soup.title = SYSTEM_ERROR THEN "SubmissionNotFoundError"
    ELSE IF InSoup(IP_BANNED, soup) THEN "IPBanError"
    ELSE IF InSoup(MATURE, soup) THEN "MaturityError"
    ELSE IF InSoup(NOT_ALLOWED, soup) THEN "AccessError"
    ELSE NoError

\* the identifiers FASubmission objects are constructed with
Identifiers == {"00001", "12345"}

\* FASubmission.__init__(soup, identifier)
FASubmission(soup, identifier) == [id |-> identifier, soup |-> soup]

SubInit ==
    /\ submission \in {FASubmission(s, i) : s \in SubmissionPages, i \in Identifiers}
    /\ sub_exc = NotCalled

SubOff ==
    /\ submission = FASubmission([title |-> "None", body |-> {}], "00001")
    /\ sub_exc = NotCalled

\* one call of submission.check_errors()
CheckErrors ==
    /\ sub_exc = NotCalled
    /\ sub_exc' = check_errors(submission.soup)
    /\ UNCHANGED submission
    /\ UNCHANGED notSub

-----------------------------------------------------------------------------
(* Paths: os.path.splitext, os.path.dirname, FAFile.extension              *)

\* str.rfind(c): the last index of c in p (from 1), 0 when there is none
rfind(p, c) ==
    LET hits == {i \in 1..Len(p) : p[i] = c}
    IN  IF hits = {} THEN 0 ELSE CHOOSE i \in hits : \A j \in hits : j <= i

\* os.path.splitext(p) = <<root, ext>>: cut at the last dot of the last path
\* component, unless that component has only dots before it
splitext(p) ==
    LET sepIndex == rfind(p, "/")
        dotIndex == rfind(p, ".")
    IN  IF dotIndex > sepIndex /\ \E k \in (sepIndex + 1)..(dotIndex - 1) : p[k] # "."
        THEN <<SubSeq(p, 1, dotIndex - 1), SubSeq(p, dotIndex, Len(p))>>
        ELSE <<p, <<>>>>

\* p.rstrip("/")
RECURSIVE rstrip_sep(_)
rstrip_sep(p) ==
    IF p # <<>> /\ p[Len(p)] = "/" THEN rstrip_sep(Front(p)) ELSE p

\* os.path.dirname(p)
dirname(p) ==
    LET head == SubSeq(p, 1, rfind(p, "/"))
    IN  IF head # <<>> /\ (\E k \in 1..Len(head) : head[k] # "/")
        THEN rstrip_sep(head)
        ELSE head

\* os.makedirs(name, exist_ok=True) raises FileNotFoundError for the empty
\* name (mkdir("") fails and "" is no directory); any other directory of the
\* model is created or already there
makedirs_raises(name) == name = <<>>

\* FAFile.extension: os.path.splitext(self._url)[1][1:]
extension(f) == Tail1(splitext(f._url)[2])

\* the suffix '~PART' of the temporary path
PART == <<"~", "P", "A", "R", "T">>

\* download, line 57: destination without its extension
strip_extension(destination) == splitext(destination)[1]

\* download, line 61: path_final
path_final_of(destination, f) ==
    strip_extension(destination) \o <<".">> \o extension(f)

\* download, line 62: path_tmp
path_tmp_of(destination) == strip_extension(destination) \o PART

-----------------------------------------------------------------------------
(* misc.FAFile: download and calculate_hash                                *)

\* the urls FAFile objects are constructed with: h/f.j and h/g (no extension)
Urls == { <<"h", "/", "f", ".", "j">>, <<"h", "/", "g">> }

\* the destinations given to download: d/a, d/a.x and the bare name a
Destinations == { <<"d", "/", "a">>, <<"d", "/", "a", ".", "x">>, <<"a">> }

\* self._local_path = None (None and "" are both false in calculate_hash)
NoPath == <<>>

\* every path a download of the model can touch
Paths ==
    UNION { { path_final_of(d, [_url |-> u, _local_path |-> NoPath]), path_tmp_of(d) } :
            d \in Destinations, u \in Urls }

NoFile  == [exists |-> FALSE, data |-> <<>>]
OldFile == [exists |-> TRUE, data |-> <<9>>]

\* what requests.get(url, stream=True) gives: a ConnectionError, or a response
\* whose iter_content yields these chunks (a chunk may be empty)
Streams == { << <<1>>, <<2>> >>, << <<1>>, <<>>, <<2>> >>, <<>> }
Responses ==
    {[ok |-> FALSE, chunks |-> <<>>]} \cup {[ok |-> TRUE, chunks |-> c] : c \in Streams}

\* the bytes of a whole stream
RECURSIVE Flatten(_)
Flatten(chunks) ==
    IF chunks = <<>> THEN <<>> ELSE chunks[1] \o Flatten(Tail1(chunks))

\* FAFile.__init__(url)
FAFile(url) == [_url |-> url, _local_path |-> NoPath]

IdleDl ==
    [destination |-> <<>>, replace |-> FALSE, skip |-> FALSE,
     stream |-> <<>>, r |-> <<>>, path_final |-> <<>>, path_tmp |-> <<>>,
     exc |-> None, opened |-> FALSE,
     prev_fs |-> [p \in Paths |-> NoFile], prev_local |-> NoPath]

NoHash == [algorithm |-> None, exc |-> None, digest |-> <<>>]

\* os.path.exists(p)
exists(p) == fs[p].exists

FileInit ==
    /\ fs \in [Paths -> {NoFile, OldFile}]
    /\ fafile \in {FAFile(u) : u \in Urls}
    /\ file_pc = "idle"
    /\ dl = IdleDl
    /\ hashed = NoHash
    /\ net = <<>>
    /\ downloaded = NoPath

FileOff ==
    /\ fs = [p \in Paths |-> NoFile]
    /\ fafile = FAFile(<<"h", "/", "f", ".", "j">>)
    /\ file_pc = "idle"
    /\ dl = IdleDl
    /\ hashed = NoHash
    /\ net = <<>>
    /\ downloaded = NoPath

\* download, lines 40 and 51-54: the call and requests.get(self._url, stream=True).
\* prev_fs and prev_local record the state the call started in.
DownloadCall ==
    /\ file_pc = "idle"
    /\ \E destination \in Destinations, replace \in BOOLEAN, skip \in BOOLEAN,
          resp \in Responses :
          LET d == [IdleDl EXCEPT
                      !.destination = destination,
                      !.replace = replace,
                      !.skip = skip,
                      !.prev_fs = fs,
                      !.prev_local = fafile._local_path]
          IN  /\ net' = <<fafile._url>>
              /\ IF resp.ok
                 THEN /\ dl' = [d EXCEPT !.stream = resp.chunks, !.r = resp.chunks]
                      /\ file_pc' = "prepare"
                 ELSE /\ dl' = [d EXCEPT !.exc = "SubmissionFileNotAccessible"]
                      /\ file_pc' = "raised"
    /\ UNCHANGED <<fs, fafile, hashed, downloaded>>
    /\ UNCHANGED notFile

\* download, lines 56-72: the paths, os.makedirs and the check of an existing
\* final path
DlPrepare ==
    /\ file_pc = "prepare"
    /\ LET destination == strip_extension(dl.destination)
           path_final  == path_final_of(dl.destination, fafile)
           path_tmp    == path_tmp_of(dl.destination)
           d           == [dl EXCEPT !.path_final = path_final, !.path_tmp = path_tmp]
       IN  IF makedirs_raises(dirname(destination))
           THEN /\ dl' = [dl EXCEPT !.exc = "FileNotFoundError"]
                /\ file_pc' = "raised"
           ELSE IF exists(path_final)
           THEN IF dl.replace /\ dl.skip
                THEN /\ dl' = [d EXCEPT !.exc = "RuntimeError"]
                     /\ file_pc' = "raised"
                ELSE IF dl.replace
                THEN /\ dl' = d
                     /\ file_pc' = "open"
                ELSE IF dl.skip
                THEN /\ dl' = d
                     /\ file_pc' = "returned"
                ELSE /\ dl' = [d EXCEPT !.exc = "FileExistsError"]
                     /\ file_pc' = "raised"
           ELSE /\ dl' = d
                /\ file_pc' = "open"
    /\ UNCHANGED <<fs, fafile, hashed, net, downloaded>>
    /\ UNCHANGED notFile

\* the path of the download that open(..., "wb") opens and the chunks go to
write_path_final(d) == d.path_final

write_path(d) == d.path_tmp

\* download, line 78: open(path_tmp, "wb") creates or truncates the file, or fails
DlOpen ==
    /\ file_pc = "open"
    /\ \E ok \in BOOLEAN :
          IF ok
          THEN /\ fs' = [fs EXCEPT ![write_path(dl)] = [exists |-> TRUE, data |-> <<>>]]
               /\ dl' = [dl EXCEPT !.opened = TRUE]
               /\ file_pc' = "write"
          ELSE /\ dl' = [dl EXCEPT !.exc = "OSError"]
               /\ file_pc' = "finally"
               /\ UNCHANGED fs
    /\ UNCHANGED <<fafile, hashed, net, downloaded>>
    /\ UNCHANGED notFile

\* download, lines 79-81: one chunk of r.iter_content, written when not empty;
\* reading or writing it may fail, which closes f and leaves the try block
DlWrite ==
    /\ file_pc = "write"
    /\ dl.r # <<>>
    /\ \E ok \in BOOLEAN :
          IF ok
          THEN /\ fs' = IF dl.r[1] # <<>>
                        THEN [fs EXCEPT ![write_path(dl)].data = @ \o dl.r[1]]
                        ELSE fs
               /\ dl' = [dl EXCEPT !.r = Tail1(@)]
               /\ file_pc' = "write"
          ELSE /\ dl' = [dl EXCEPT !.exc = "IOError"]
               /\ file_pc' = "finally"
               /\ UNCHANGED fs
    /\ UNCHANGED <<fafile, hashed, net, downloaded>>
    /\ UNCHANGED notFile

\* download, line 84: the stream is exhausted, f is closed, and
\* os.rename(path_tmp, path_final) moves the file or fails
DlRename ==
    /\ file_pc = "write"
    /\ dl.r = <<>>
    /\ \E ok \in BOOLEAN :
          IF ok
          THEN /\ fs' = [fs EXCEPT ![dl.path_final] = fs[dl.path_tmp],
                                   ![dl.path_tmp] = NoFile]
               /\ dl' = dl
          ELSE /\ dl' = [dl EXCEPT !.exc = "OSError"]
               /\ UNCHANGED fs
    /\ file_pc' = "finally"
    /\ UNCHANGED <<fafile, hashed, net, downloaded>>
    /\ UNCHANGED notFile

\* a finally block that removes nothing
keep_tmp(fsys, p) == fsys

\* download, lines 87-90: os.remove(path_tmp), an OSError (no such file) ignored
remove_tmp(fsys, p) ==
    IF fsys[p].exists THEN [fsys EXCEPT ![p] = NoFile] ELSE fsys

\* a download that forgets where it put the file
store_nothing(d) == NoPath

\* download, line 93: the value stored in self._local_path
store_local_path(d) == d.path_final

\* download, lines 85-93: the finally block; then the pending error propagates,
\* or the final path is stored and the call returns
DlFinally ==
    /\ file_pc = "finally"
    /\ fs' = remove_tmp(fs, dl.path_tmp)
    /\ IF dl.exc # None
       THEN /\ file_pc' = "raised"
            /\ UNCHANGED <<fafile, downloaded>>
       ELSE /\ fafile' = [fafile EXCEPT !._local_path = store_local_path(dl)]
            /\ downloaded' = dl.path_final
            /\ file_pc' = "returned"
    /\ UNCHANGED <<dl, hashed, net>>
    /\ UNCHANGED notFile

\* hashlib.algorithms_available, and the names asked for
algorithms_available == {"sha256", "md5"}
Algorithms == {"sha256", "md5", "crc"}

\* hash_.update(chunk) for every non-empty chunk; the digest stands for the
\* algorithm and the bytes fed to it (no two inputs share a digest)
RECURSIVE feed(_, _)
feed(data, chunks) ==
    IF chunks = <<>> THEN data
    ELSE feed(IF chunks[1] # <<>> THEN data \o chunks[1] ELSE data, Tail1(chunks))

Digest(algorithm, data) == <<algorithm, data>>

\* calculate_hash, line 106: self._local_path and os.path.exists(self._local_path)
use_local(f) == f._local_path # NoPath /\ exists(f._local_path)

\* calculate_hash, lines 95-120
HashCall ==
    /\ file_pc = "idle"
    /\ \E algorithm \in Algorithms, resp \in Responses :
          IF algorithm \notin algorithms_available
          THEN /\ hashed' = [algorithm |-> algorithm, exc |-> "ValueError", digest |-> <<>>]
               /\ net' = <<>>
          ELSE IF use_local(fafile)
          THEN /\ hashed' = [algorithm |-> algorithm, exc |-> None,
                             digest |-> Digest(algorithm, fs[fafile._local_path].data)]
               /\ net' = <<>>
          ELSE /\ net' = <<fafile._url>>
               /\ hashed' =
                     IF resp.ok
                     THEN [algorithm |-> algorithm, exc |-> None,
                           digest |-> Digest(algorithm, feed(<<>>, resp.chunks))]
                     ELSE [algorithm |-> algorithm, exc |-> "SubmissionFileNotAccessible",
                           digest |-> <<>>]
    /\ file_pc' = "hashed"
    /\ UNCHANGED <<fs, fafile, dl, downloaded>>
    /\ UNCHANGED notFile

\* the call in flight has returned or raised; the caller goes on
FileReturn ==
    /\ file_pc \in {"returned", "raised", "hashed"}
    /\ file_pc' = "idle"
    /\ dl' = IdleDl
    /\ hashed' = NoHash
    /\ net' = <<>>
    /\ UNCHANGED <<fs, fafile, downloaded>>
    /\ UNCHANGED notFile

\* between two calls, somebody removes a file
ExtRemove ==
    /\ file_pc = "idle"
    /\ \E p \in Paths :
          /\ fs[p].exists
          /\ fs' = [fs EXCEPT ![p] = NoFile]
    /\ UNCHANGED <<fafile, file_pc, dl, hashed, net, downloaded>>
    /\ UNCHANGED notFile

\* the process is killed in the middle of a download: nothing is cleaned up
Kill ==
    /\ file_pc \in {"prepare", "open", "write", "finally"}
    /\ file_pc' = "killed"
    /\ UNCHANGED <<fs, fafile, dl, hashed, net, downloaded>>
    /\ UNCHANGED notFile

\* a new process makes a new FAFile for the same url
Restart ==
    /\ file_pc = "killed"
    /\ fafile' = FAFile(fafile._url)
    /\ file_pc' = "idle"
    /\ dl' = IdleDl
    /\ net' = <<>>
    /\ downloaded' = NoPath
    /\ UNCHANGED <<fs, hashed>>
    /\ UNCHANGED notFile

-----------------------------------------------------------------------------
(* submission.FAFile: the file reference of FASubmission.file and .thumb   *)

\* FASubmission.file and .thumb build their reference with the FAFile class
\* of submission.py: the same __init__ (url kept, _local_path None), another
\* download, the same calculate_hash.

\* the names an attribute lookup on such an object finds: the two instance
\* attributes set by __init__, the properties and the methods of the class
FileAttributes ==
    {"_url", "_local_path", "url", "filename", "extension", "download", "calculate_hash"}

\* `self.<name>` raises AttributeError for any other name
getattr_raises(name) == name \notin FileAttributes

\* download, lines 238 and 249-252: the call and requests.get(self._url, stream=True)
SubDownloadCall ==
    /\ file_pc = "idle"
    /\ \E destination \in Destinations, resp \in Responses :
          LET d == [IdleDl EXCEPT
                      !.destination = destination,
                      !.prev_fs = fs,
                      !.prev_local = fafile._local_path]
          IN  /\ net' = <<fafile._url>>
              /\ IF resp.ok
                 THEN /\ dl' = [d EXCEPT !.stream = resp.chunks, !.r = resp.chunks]
                      /\ file_pc' = "prepare"
                 ELSE /\ dl' = [d EXCEPT !.exc = "SubmissionFileNotAccessible"]
                      /\ file_pc' = "raised"
    /\ UNCHANGED <<fs, fafile, hashed, downloaded>>
    /\ UNCHANGED notFile

\* download, lines 255-259: the extension is cut off, os.makedirs, path_tmp
SubDlPrepare ==
    /\ file_pc = "prepare"
    /\ LET destination == splitext(dl.destination)[1]
       IN  IF makedirs_raises(dirname(destination))
           THEN /\ dl' = [dl EXCEPT !.exc = "FileNotFoundError"]
                /\ file_pc' = "raised"
           ELSE /\ dl' = [dl EXCEPT !.path_tmp = destination \o PART]
                /\ file_pc' = "open"
    /\ UNCHANGED <<fs, fafile, hashed, net, downloaded>>
    /\ UNCHANGED notFile

\* download, line 261: open(path_tmp, "wb") creates or truncates the file, or
\* fails; nothing catches the error
SubDlOpen ==
    /\ file_pc = "open"
    /\ \E ok \in BOOLEAN :
          IF ok
          THEN /\ fs' = [fs EXCEPT ![dl.path_tmp] = [exists |-> TRUE, data |-> <<>>]]
               /\ dl' = [dl EXCEPT !.opened = TRUE]
               /\ file_pc' = "write"
          ELSE /\ dl' = [dl EXCEPT !.exc = "OSError"]
               /\ file_pc' = "raised"
               /\ UNCHANGED fs
    /\ UNCHANGED <<fafile, hashed, net, downloaded>>
    /\ UNCHANGED notFile

\* download, lines 262-264: one chunk of r.iter_content, written when not
\* empty; a failure closes f (the with statement) and propagates
SubDlWrite ==
    /\ file_pc = "write"
    /\ dl.r # <<>>
    /\ \E ok \in BOOLEAN :
          IF ok
          THEN /\ fs' = IF dl.r[1] # <<>>
                        THEN [fs EXCEPT ![dl.path_tmp].data = @ \o dl.r[1]]
                        ELSE fs
               /\ dl' = [dl EXCEPT !.r = Tail1(@)]
               /\ file_pc' = "write"
          ELSE /\ dl' = [dl EXCEPT !.exc = "IOError"]
               /\ file_pc' = "raised"
               /\ UNCHANGED fs
    /\ UNCHANGED <<fafile, hashed, net, downloaded>>
    /\ UNCHANGED notFile

\* download, lines 267-271: the stream is exhausted and f closed; path_final
\* is built from self.file_extension, the file is renamed and the final path
\* stored. The lookup of file_extension comes first and raises AttributeError.
SubDlRename ==
    /\ file_pc = "write"
    /\ dl.r = <<>>
    /\ IF getattr_raises("file_extension")
       THEN /\ dl' = [dl EXCEPT !.exc = "AttributeError"]
            /\ file_pc' = "raised"
            /\ UNCHANGED <<fs, fafile, downloaded>>
       ELSE LET destination == splitext(dl.destination)[1]
                path_final  == destination \o <<".">> \o extension(fafile)
            IN  \E ok \in BOOLEAN :
                   IF ok
                   THEN /\ fs' = [fs EXCEPT ![path_final] = fs[dl.path_tmp],
                                            ![dl.path_tmp] = NoFile]
                        /\ dl' = [dl EXCEPT !.path_final = path_final]
                        /\ fafile' = [fafile EXCEPT !._local_path = path_final]
                        /\ downloaded' = path_final
                        /\ file_pc' = "returned"
                   ELSE /\ dl' = [dl EXCEPT !.path_final = path_final, !.exc = "OSError"]
                        /\ file_pc' = "raised"
                        /\ UNCHANGED <<fs, fafile, downloaded>>
    /\ UNCHANGED <<hashed, net>>
    /\ UNCHANGED notFile

\* calculate_hash, lines 273-298
SubHashCall ==
    /\ file_pc = "idle"
    /\ \E algorithm \in Algorithms, resp \in Responses :
          IF algorithm \notin algorithms_available
          THEN /\ hashed' = [algorithm |-> algorithm, exc |-> "ValueError", digest |-> <<>>]
               /\ net' = <<>>
          ELSE IF fafile._local_path # NoPath /\ exists(fafile._local_path)
          THEN /\ hashed' = [algorithm |-> algorithm, exc |-> None,
                             digest |-> Digest(algorithm, fs[fafile._local_path].data)]
               /\ net' = <<>>
          ELSE /\ net' = <<fafile._url>>
               /\ hashed' =
                     IF resp.ok
                     THEN [algorithm |-> algorithm, exc |-> None,
                           digest |-> Digest(algorithm, feed(<<>>, resp.chunks))]
                     ELSE [algorithm |-> algorithm, exc |-> "SubmissionFileNotAccessible",
                           digest |-> <<>>]
    /\ file_pc' = "hashed"
    /\ UNCHANGED <<fs, fafile, dl, downloaded>>
    /\ UNCHANGED notFile

-----------------------------------------------------------------------------
(* Conversions used by the client: str(int), int(str), str.lower           *)

Digits == <<"0", "1", "2", "3", "4", "5", "6", "7", "8", "9">>

\* str(n) for an integer n >= 0: its decimal digits
RECURSIVE str(_)
str(n) ==
    IF n < 10 THEN <<Digits[n + 1]>>
    ELSE str(n \div 10) \o <<Digits[(n % 10) + 1]>>

DigitValue(c) == CHOOSE d \in 0..9 : Digits[d + 1] = c

\* int(s) for a string of decimal digits
RECURSIVE int(_)
int(s) ==
    IF Len(s) = 1 THEN DigitValue(s[1])
    ELSE int(Front(s)) * 10 + DigitValue(s[Len(s)])

\* str.lower() on the letters of the model
LowerOf == [c \in {"F", "O", "B"} |-> CASE c = "F" -> "f" [] c = "O" -> "o" [] c = "B" -> "b"]
lower(s) == [i \in DOMAIN s |-> IF s[i] \in DOMAIN LowerOf THEN LowerOf[s[i]] ELSE s[i]]

-----------------------------------------------------------------------------
(* main.FurAffinity: state, requests, pages                                *)

\* Bounds: the largest `page` and `num_pages` arguments of a listing call.
MaxPage     == 2
MaxNumPages == 3

\* time.sleep(1) in the loops, WAIT_TIME in search
WAIT_TIME == 1

\* the cookie dicts given to login_cookies
CookieDicts ==
    { [n \in {"a"} |-> "x"], [n \in {"a"} |-> "y"], [n \in {"b"} |-> "x"] }

\* session.cookies.update(c)
cookies_update(jar, c) ==
    [n \in DOMAIN jar \cup DOMAIN c |-> IF n \in DOMAIN c THEN c[n] ELSE jar[n]]

EmptyJar == [n \in {} |-> "x"]

\* an entry of the log: a request with the response it got, or a sleep
Get(url, resp)        == [kind |-> "GET", url |-> url, data |-> None, resp |-> resp]
Post(url, data, resp) == [kind |-> "POST", url |-> url, data |-> data, resp |-> resp]
Sleep(secs)           == [kind |-> "sleep", url |-> <<>>, data |-> secs, resp |-> None]

\* FAResult(id, kind)
FAResult(id, kind) == [id |-> id, kind |-> kind]

\* a <figure> of a listing: its id attribute ("sid-" and a number) and the
\* two groups r-(...) t-(...) of its class attribute
Figure(n, r, t) == [id |-> <<"s", "i", "d", "-">> \o n, class |-> [r |-> r, t |-> t]]

Fig7   == Figure(<<"7">>, "general", "image")
Fig12  == Figure(<<"1", "2">>, "adult", "text")
Fig305 == Figure(<<"3", "0", "5">>, "mature", "flash")

\* the listing pages the site serves: with or without the "no-images" div,
\* and the figures of the gallery
ListingPages ==
    { [no_images |-> TRUE,  figures |-> <<>>],
      [no_images |-> TRUE,  figures |-> <<Fig7>>],
      [no_images |-> FALSE, figures |-> <<Fig7, Fig12>>],
      [no_images |-> FALSE, figures |-> <<Fig305>>] }

\* lines 104-106: the FAResult of one figure: int(id[4:]) and group 2 of the class
result_of(figure) == FAResult(int(SubSeq(figure.id, 5, Len(figure.id))), figure.class.t)

\* lines 103-106: the FAResults of the figures, in document order
results_of(figures) == [k \in DOMAIN figures |-> result_of(figures[k])]

\* the home page: does it carry the <a id="my-username"> element
HomePages == [my_username : BOOLEAN]

\* the settings pages: does the page hold every element the code looks up
SettingsPages == [complete : BOOLEAN]

Usernames == { <<"F", "o">>, <<"b">> }

\* the submission argument of get_submission: an int, a str or an FAResult
SubmissionArgs ==
    { [type |-> "int", value |-> 7], [type |-> "int", value |-> 120],
      [type |-> "str", value |-> <<"0", "0", "0", "0", "1">>],
      [type |-> "FAResult", value |-> FAResult(305, "image")] }

IdleCall ==
    [op |-> None, exc |-> None, ret |-> None,
     sub_page |-> None, todo |-> <<>>, username |-> <<>>,
     arg_page |-> 0, num_pages |-> 0, page |-> 0, end_page |-> 0,
     results |-> <<>>, arg |-> None, soup |-> None, form |-> None]

ClientInit ==
    /\ logged_in = FALSE
    /\ cookies = EmptyJar
    /\ c_pc = "idle"
    /\ call = IdleCall
    /\ log = <<>>
    /\ login_ok_seen = FALSE

ClientOff == ClientInit

\* a call that raises exc before doing anything else
Raises(op, exc) ==
    /\ call' = [IdleCall EXCEPT !.op = op, !.exc = exc]
    /\ c_pc' = "raised"

\* a call that returns ret
Returns(c, ret) ==
    /\ call' = [c EXCEPT !.ret = ret]
    /\ c_pc' = "returned"

\* a client without the login check
no_login_check == FALSE

\* `if not self.logged_in: raise NotLoggedInError`
not_logged_in == ~logged_in

-----------------------------------------------------------------------------
(* Authentication                                                          *)

\* login: raise NotImplementedError
Login ==
    /\ c_pc = "idle"
    /\ Raises("login", "NotImplementedError")
    /\ log' = <<>>
    /\ UNCHANGED <<logged_in, cookies, login_ok_seen>>
    /\ UNCHANGED notClient

\* a check_login that is content with any page
check_login_always(home) == TRUE

\* check_login: the home page is fetched; True iff it has the my-username link
check_login(home) == home.my_username

CheckLogin ==
    /\ c_pc = "idle"
    /\ \E home \in HomePages :
          /\ log' = <<Get(<<"home">>, home)>>
          /\ Returns([IdleCall EXCEPT !.op = "check_login"], check_login(home))
    /\ UNCHANGED <<logged_in, cookies, login_ok_seen>>
    /\ UNCHANGED notClient

\* a login_cookies that stores the outcome of the check
logged_in_tracks_check(ok, was) == ok

\* lines 63-66: logged_in is set when the check succeeds and not touched
\* when it fails
logged_in_after(ok, was) == IF ok THEN TRUE ELSE was

\* login_cookies, lines 52-66
LoginCookies ==
    /\ c_pc = "idle"
    /\ \E c \in CookieDicts, home \in HomePages :
          LET this == [IdleCall EXCEPT !.op = "login_cookies", !.arg = c]
          IN  /\ cookies' = cookies_update(cookies, c)
              /\ log' = <<Get(<<"home">>, home)>>
              /\ login_ok_seen' = (login_ok_seen \/ home.my_username)
              /\ logged_in' = logged_in_after(check_login(home), logged_in)
              /\ IF check_login(home)
                 THEN Returns(this, None)
                 ELSE /\ call' = [this EXCEPT !.exc = "LoginError"]
                      /\ c_pc' = "raised"
    /\ UNCHANGED notClient

-----------------------------------------------------------------------------
(* User submissions                                                        *)

\* the sub-pages each listing operation reads, in order
SubPagesOf ==
    [op \in {"get_user_gallery", "get_user_scraps", "get_user_favorites",
             "get_user_submissions"} |->
        CASE op = "get_user_gallery"     -> <<"gallery">>
          [] op = "get_user_scraps"      -> <<"scraps">>
          [] op = "get_user_favorites"   -> <<"favorites">>
          [] op = "get_user_submissions" -> <<"gallery", "scraps">>]

ListingOps == DOMAIN SubPagesOf

\* a loop that runs one page too far
loop_continues_inclusive(page, end_page) == page <= end_page

\* `while page < end_page`
loop_continues(page, end_page) == page < end_page

\* lines 82-93 and 114-138: the call, the login check, the set-up of the loop
ListCall ==
    /\ c_pc = "idle"
    /\ log' = <<>>
    /\ \E op \in ListingOps, username \in Usernames,
          page \in 1..MaxPage, num_pages \in 0..MaxNumPages :
          IF not_logged_in
          THEN Raises(op, "NotLoggedInError")
          ELSE /\ call' = [IdleCall EXCEPT
                             !.op = op,
                             !.sub_page = SubPagesOf[op][1],
                             !.todo = Tail1(SubPagesOf[op]),
                             !.arg = username,
                             !.username = lower(username),
                             !.arg_page = page,
                             !.num_pages = num_pages,
                             !.page = page,
                             !.end_page = page + num_pages]
               /\ c_pc' = "list_loop"
    /\ UNCHANGED <<logged_in, cookies, login_ok_seen>>
    /\ UNCHANGED notClient

\* line 112: __get_user_submissions returns; get_user_submissions goes on with
\* the scraps, called with the same arguments, and extends the list
ListFinish(c) ==
    IF c.todo = <<>>
    THEN Returns(c, c.results)
    ELSE /\ call' = [c EXCEPT !.sub_page = c.todo[1],
                              !.todo = Tail1(c.todo),
                              !.page = c.arg_page,
                              !.end_page = c.arg_page + c.num_pages]
         /\ c_pc' = "list_loop"

\* lines 94-110: one iteration of the loop
ListPage ==
    /\ c_pc = "list_loop"
    /\ loop_continues(call.page, call.end_page)
    /\ \E resp \in ListingPages :
          LET get == Get(<<call.sub_page, call.username, call.page>>, resp)
          IN  IF resp.no_images
              THEN /\ log' = Append(log, get)
                   /\ ListFinish(call)
              ELSE /\ log' = IF call.page > 1
                             THEN log \o <<get, Sleep(1)>>
                             ELSE Append(log, get)
                   /\ call' = [call EXCEPT
                                 !.results = @ \o results_of(resp.figures),
                                 !.page = @ + 1]
                   /\ c_pc' = "list_loop"
    /\ UNCHANGED <<logged_in, cookies, login_ok_seen>>
    /\ UNCHANGED notClient

\* line 94: the loop condition fails
ListExit ==
    /\ c_pc = "list_loop"
    /\ ~loop_continues(call.page, call.end_page)
    /\ ListFinish(call)
    /\ UNCHANGED <<logged_in, cookies, log, login_ok_seen>>
    /\ UNCHANGED notClient

-----------------------------------------------------------------------------
(* Submissions and account functions                                       *)

\* lines 316-318: the id string of the submission argument
submission_id(a) ==
    IF a.type = "FAResult" THEN str(a.value.id)
    ELSE IF a.type = "int" THEN str(a.value)
    ELSE a.value

\* a get_submission that does not look at the page
check_skipped(sub) == NoError

\* line 325: submission.check_errors()
check_called(sub) == check_errors(sub.soup)

\* get_submission, lines 299-326
GetSubmission ==
    /\ c_pc = "idle"
    /\ \E a \in SubmissionArgs, soup \in SubmissionPages :
          IF not_logged_in
          THEN Raises("get_submission", "NotLoggedInError") /\ log' = <<>>
          ELSE LET id   == submission_id(a)
                   sub  == FASubmission(soup, id)
                   this == [IdleCall EXCEPT !.op = "get_submission", !.arg = a]
               IN  /\ log' = <<Get(<<"view", id>>, soup)>>
                   /\ IF check_called(sub) # NoError
                      THEN /\ call' = [this EXCEPT !.exc = check_called(sub)]
                           /\ c_pc' = "raised"
                      ELSE Returns(this, sub)
    /\ UNCHANGED <<logged_in, cookies, login_ok_seen>>
    /\ UNCHANGED notClient

\* nuke_queue, lines 187-200
NukeQueue ==
    /\ c_pc = "idle"
    /\ IF not_logged_in
       THEN Raises("nuke_queue", "NotLoggedInError") /\ log' = <<>>
       ELSE /\ log' = <<Post(<<"msg", "submissions">>, "Nuke+all+Submissions", None)>>
            /\ Returns([IdleCall EXCEPT !.op = "nuke_queue"], None)
    /\ UNCHANGED <<logged_in, cookies, login_ok_seen>>
    /\ UNCHANGED notClient

\* get_account_settings, lines 352-384: a page that lacks an element the code
\* looks up ends the call with an AttributeError
GetAccountSettings ==
    /\ c_pc = "idle"
    /\ \E page \in SettingsPages :
          IF not_logged_in
          THEN Raises("get_account_settings", "NotLoggedInError") /\ log' = <<>>
          ELSE LET this == [IdleCall EXCEPT !.op = "get_account_settings"]
               IN  /\ log' = <<Get(<<"controls", "settings">>, page)>>
                   /\ IF page.complete
                      THEN Returns(this, "settings")
                      ELSE /\ call' = [this EXCEPT !.exc = "AttributeError"]
                           /\ c_pc' = "raised"
    /\ UNCHANGED <<logged_in, cookies, login_ok_seen>>
    /\ UNCHANGED notClient

\* get_site_settings, lines 386-411: line 403 looks for an option with the
\* attribute elected="selected", which no page has, and calls .get on None
GetSiteSettings ==
    /\ c_pc = "idle"
    /\ \E page \in SettingsPages :
          IF not_logged_in
          THEN Raises("get_site_settings", "NotLoggedInError") /\ log' = <<>>
          ELSE /\ log' = <<Get(<<"controls", "site-settings">>, page)>>
               /\ call' = [IdleCall EXCEPT !.op = "get_site_settings",
                                           !.exc = "AttributeError"]
               /\ c_pc' = "raised"
    /\ UNCHANGED <<logged_in, cookies, login_ok_seen>>
    /\ UNCHANGED notClient

-----------------------------------------------------------------------------
(* "followed users" queue                                                  *)

\* str.find(sub): the first index (from 0) at which sub occurs in s, -1 if none
find(s, sub) ==
    LET hits == {i \in 1..(Len(s) - Len(sub) + 1) : SubSeq(s, i, i + Len(sub) - 1) = sub}
    IN  IF hits = {} THEN -1 ELSE (CHOOSE i \in hits : \A j \in hits : i <= j) - 1

OLD_AT == <<"o", "l", "d", "@">>

\* the href of the "more" link: /old@48 (end of the list) or /old~7@48
HrefLast == <<"/", "o", "l", "d", "@", "4", "8">>
HrefNext == <<"/", "o", "l", "d", "~", "7", "@", "4", "8">>

\* the pages of the submission queue: the "There are no submissions to list"
\* text, the figures, and the href of <a class="more"> (None: no such link)
QueuePages ==
    { [empty |-> TRUE,  figures |-> <<>>,            more |-> None],
      [empty |-> FALSE, figures |-> <<Fig7, Fig12>>, more |-> HrefNext],
      [empty |-> FALSE, figures |-> <<Fig305>>,      more |-> HrefLast],
      [empty |-> FALSE, figures |-> <<Fig12>>,       more |-> None] }

\* `while page < end_page` of get_queue
queue_loop_continues(page, end_page) == page < end_page

\* get_queue, lines 146-161: the login check, the first page, the set-up
QueueCall ==
    /\ c_pc = "idle"
    /\ \E nuke \in BOOLEAN, page \in 1..MaxPage, num_pages \in 0..MaxNumPages,
          resp \in QueuePages :
          IF not_logged_in
          THEN Raises("get_queue", "NotLoggedInError") /\ log' = <<>>
          ELSE LET this == [IdleCall EXCEPT
                              !.op = "get_queue",
                              !.arg = nuke,
                              !.arg_page = page,
                              !.num_pages = num_pages,
                              !.page = page,
                              !.end_page = page + num_pages,
                              !.soup = resp]
               IN  /\ log' = <<Get(<<"msg", "submissions", "old">>, resp)>>
                   /\ IF resp.empty
                      THEN Returns(this, <<>>)
                      ELSE call' = this /\ c_pc' = "queue_loop"
    /\ UNCHANGED <<logged_in, cookies, login_ok_seen>>
    /\ UNCHANGED notClient

\* get_queue, lines 162-180: one iteration of the loop
QueuePage ==
    /\ c_pc = "queue_loop"
    /\ queue_loop_continues(call.page, call.end_page)
    /\ LET results == call.results \o results_of(call.soup.figures)
           href    == call.soup.more
       IN  IF href = None
           THEN /\ call' = [call EXCEPT !.results = results, !.exc = "AttributeError"]
                /\ c_pc' = "raised"
                /\ UNCHANGED log
           ELSE IF find(href, OLD_AT) >= 0
           THEN /\ call' = [call EXCEPT !.results = results]
                /\ c_pc' = "queue_after"
                /\ UNCHANGED log
           ELSE \E resp \in QueuePages :
                   /\ log' = IF call.page > 1
                             THEN log \o <<Get(href, resp), Sleep(1)>>
                             ELSE Append(log, Get(href, resp))
                   /\ call' = [call EXCEPT !.results = results,
                                           !.soup = resp,
                                           !.page = @ + 1]
                   /\ c_pc' = "queue_loop"
    /\ UNCHANGED <<logged_in, cookies, login_ok_seen>>
    /\ UNCHANGED notClient

\* a get_queue that nukes whether asked to or not
nuke_always(l, nuke) ==
    Append(l, Post(<<"msg", "submissions">>, "Nuke+all+Submissions", None))

\* lines 182-183: `if nuke: self.nuke_queue()`, the POST of lines 196-200
nuke_if_asked(l, nuke) ==
    IF nuke
    THEN Append(l, Post(<<"msg", "submissions">>, "Nuke+all+Submissions", None))
    ELSE l

\* get_queue, lines 182-185: after the loop, nuke_queue() if asked, and return
QueueFinish ==
    /\ \/ c_pc = "queue_loop" /\ ~queue_loop_continues(call.page, call.end_page)
       \/ c_pc = "queue_after"
    /\ log' = nuke_if_asked(log, call.arg)
    /\ Returns(call, call.results)
    /\ UNCHANGED <<logged_in, cookies, login_ok_seen>>
    /\ UNCHANGED notClient

-----------------------------------------------------------------------------
(* Searching                                                               *)

\* the ratings and types arguments of search (None: the default is used)
RatingsArgs == { None, <<1, 0, 0>>, <<0, 0, 0>> }
TypesArgs   == { None, <<0, 0, 0, 0, 0, 1>> }

\* the queries: search("fox"), and search_tags("a", "b") which searches for
\* "@keywords " + " ".join(tags)
Queries == { <<"fox">>, <<"@keywords", "a", "b">> }

\* a form that sends a value for an unset flag
on_or_off(x) == IF x # 0 THEN "on" ELSE "off"

\* `x and "on" or None`
on_or_none(x) == IF x # 0 THEN "on" ELSE None

\* search, lines 225-255: the form
search_form(query, page, ratings_arg, types_arg) ==
    LET ratings == IF ratings_arg = None THEN <<1, 1, 1>> ELSE ratings_arg
        types   == IF types_arg = None THEN <<1, 0, 1, 0, 0, 0>> ELSE types_arg
    IN  [q |-> query, page |-> str(page), perpage |-> "72",
         order_by |-> "relevancy", order_direction |-> "desc", range |-> "all",
         do_search |-> "Search",
         rating_general |-> on_or_none(ratings[1]),
         rating_mature  |-> on_or_none(ratings[2]),
         rating_adult   |-> on_or_none(ratings[3]),
         type_art    |-> on_or_none(types[1]),
         type_flash  |-> on_or_none(types[2]),
         type_photo  |-> on_or_none(types[3]),
         type_music  |-> on_or_none(types[4]),
         type_story  |-> on_or_none(types[5]),
         type_poetry |-> on_or_none(types[6]),
         mode |-> "extended"]

\* the pages of search results: the figures of gallery-search-results
SearchPages ==
    { [figures |-> <<>>], [figures |-> <<Fig7, Fig12>>], [figures |-> <<Fig305>>] }

\* `while page < end_page` of search
search_loop_continues(page, end_page) == page < end_page

\* search, lines 206-255 (no login check), and search_tags, lines 282-293
SearchCall ==
    /\ c_pc = "idle"
    /\ \E query \in Queries, page \in 1..MaxPage, num_pages \in 0..MaxNumPages,
          ratings \in RatingsArgs, types \in TypesArgs :
          /\ call' = [IdleCall EXCEPT
                        !.op = IF query[1] = "@keywords" THEN "search_tags" ELSE "search",
                        !.arg = [ratings |-> ratings, types |-> types],
                        !.arg_page = page,
                        !.num_pages = num_pages,
                        !.page = page,
                        !.end_page = page + num_pages,
                        !.form = search_form(query, page, ratings, types)]
          /\ c_pc' = "search_loop"
    /\ log' = <<>>
    /\ UNCHANGED <<logged_in, cookies, login_ok_seen>>
    /\ UNCHANGED notClient

\* search, lines 257-278: one iteration of the loop
SearchPage ==
    /\ c_pc = "search_loop"
    /\ search_loop_continues(call.page, call.end_page)
    /\ \E resp \in SearchPages :
          LET form == [call.form EXCEPT !.page = str(call.page)]
              post == Post(<<"search">>, form, resp)
          IN  IF resp.figures = <<>>
              THEN /\ log' = Append(log, post)
                   /\ Returns([call EXCEPT !.form = form], call.results)
              ELSE /\ log' = IF call.page > 1
                             THEN log \o <<post, Sleep(WAIT_TIME)>>
                             ELSE Append(log, post)
                   /\ call' = [call EXCEPT !.form = form,
                                           !.results = @ \o results_of(resp.figures),
                                           !.page = @ + 1]
                   /\ c_pc' = "search_loop"
    /\ UNCHANGED <<logged_in, cookies, login_ok_seen>>
    /\ UNCHANGED notClient

\* search, lines 257 and 280: the loop condition fails, the list is returned
SearchExit ==
    /\ c_pc = "search_loop"
    /\ ~search_loop_continues(call.page, call.end_page)
    /\ Returns(call, call.results)
    /\ UNCHANGED <<logged_in, cookies, log, login_ok_seen>>
    /\ UNCHANGED notClient

-----------------------------------------------------------------------------
(* Watchlist                                                               *)

\* Bound: itertools.count(1) has no end; the model stops asking for pages
\* after this one.
MaxWatchPages == 3

\* group 1 of WATCHLIST_REGEX in the href of a watched user's link
WatchNames == { <<"a">>, <<"-">>, <<"a", " ">> }

\* the pages of the buddy list: the links matching WATCHLIST_REGEX, in order
WatchPages == SeqUpTo(WatchNames, 2)

\* a scan that takes the repeated username into the list before it returns
RECURSIVE watch_scan_keeps_repeat(_, _)
watch_scan_keeps_repeat(users, links) ==
    IF links = <<>> THEN [users |-> users, returned |-> FALSE]
    ELSE LET username == clean(links[1], FALSE, <<" ">>)
         IN  IF \A k \in DOMAIN users : users[k] # username
             THEN watch_scan_keeps_repeat(Append(users, username), Tail1(links))
             ELSE [users |-> Append(users, username), returned |-> TRUE]

\* lines 345-350: the links of one page, one after the other; `returned` says
\* that a username already in users was met and the call returned
RECURSIVE watch_scan(_, _)
watch_scan(users, links) ==
    IF links = <<>> THEN [users |-> users, returned |-> FALSE]
    ELSE LET username == clean(links[1], FALSE, <<" ">>)
         IN  IF \A k \in DOMAIN users : users[k] # username
             THEN watch_scan(Append(users, username), Tail1(links))
             ELSE [users |-> users, returned |-> TRUE]

\* get_watchlist, lines 332-339
WatchCall ==
    /\ c_pc = "idle"
    /\ log' = <<>>
    /\ IF not_logged_in
       THEN Raises("get_watchlist", "NotLoggedInError")
       ELSE /\ call' = [IdleCall EXCEPT !.op = "get_watchlist", !.page = 1]
            /\ c_pc' = "watch_loop"
    /\ UNCHANGED <<logged_in, cookies, login_ok_seen>>
    /\ UNCHANGED notClient

\* get_watchlist, lines 341-350: one page of the buddy list
WatchPage ==
    /\ c_pc = "watch_loop"
    /\ call.page <= MaxWatchPages
    /\ \E resp \in WatchPages :
          LET scan == watch_scan(call.results, resp)
          IN  /\ log' = Append(log, Get(<<"controls", "buddylist", str(call.page)>>, resp))
              /\ IF scan.returned
                 THEN Returns([call EXCEPT !.results = scan.users], scan.users)
                 ELSE /\ call' = [call EXCEPT !.results = scan.users, !.page = @ + 1]
                      /\ c_pc' = "watch_loop"
    /\ UNCHANGED <<logged_in, cookies, login_ok_seen>>
    /\ UNCHANGED notClient

\* The runs of get_watchlist on a client that has logged in. In these runs
\* the value a call has not returned yet is written as the empty list, the
\* type of what get_watchlist returns.
IdleWatch == [IdleCall EXCEPT !.ret = <<>>]

\* a client after a login_cookies call that succeeded, no call in flight
WatchInit ==
    /\ logged_in = TRUE
    /\ cookies = cookies_update(EmptyJar, [n \in {"a"} |-> "x"])
    /\ c_pc = "idle"
    /\ call = IdleWatch
    /\ log = <<>>
    /\ login_ok_seen = TRUE

\* get_watchlist, lines 332-339
WatchStart ==
    /\ c_pc = "idle"
    /\ log' = <<>>
    /\ IF not_logged_in
       THEN Raises("get_watchlist", "NotLoggedInError")
       ELSE /\ call' = [IdleWatch EXCEPT !.op = "get_watchlist", !.page = 1]
            /\ c_pc' = "watch_loop"
    /\ UNCHANGED <<logged_in, cookies, login_ok_seen>>
    /\ UNCHANGED notClient

\* get_watchlist has returned; the caller goes on
WatchDone ==
    /\ c_pc = "returned"
    /\ c_pc' = "idle"
    /\ call' = IdleWatch
    /\ log' = <<>>
    /\ UNCHANGED <<logged_in, cookies, login_ok_seen>>
    /\ UNCHANGED notClient

\* A site whose watchlist is finite and that serves a page without links for
\* every page number past the last one: the list has fewer than
\* MaxWatchPages pages, and a page without links is followed by such pages
\* only. resp is the page served for the request that follows the log l.
finite_list_serves(l, page, resp) ==
    /\ page >= MaxWatchPages => resp = <<>>
    /\ (l # <<>> /\ l[Len(l)].resp = <<>>) => resp = <<>>

\* get_watchlist, lines 341-350, against such a site: one page of the list
WatchPageListed ==
    /\ WatchPage
    /\ finite_list_serves(log, call.page, log'[Len(log')].resp)

\* get_watchlist, lines 341-350, against such a site, for a page number past
\* MaxWatchPages: the page has no links, the for loop of line 345 has nothing
\* to read and itertools.count goes on. Page numbers past the bound are kept
\* up to their parity, and the log keeps the last of their requests.
WatchPagePastBound ==
    /\ c_pc = "watch_loop"
    /\ call.page > MaxWatchPages
    /\ LET resp == <<>>
           scan == watch_scan(call.results, resp)
           get  == Get(<<"controls", "buddylist", str(call.page)>>, resp)
       IN  /\ finite_list_serves(log, call.page, resp)
           /\ log' = Append(SubSeq(log, 1, MaxWatchPages), get)
           /\ IF scan.returned
              THEN Returns([call EXCEPT !.results = scan.users], scan.users)
              ELSE /\ call' = [call EXCEPT
                                 !.results = scan.users,
                                 !.page = IF @ = MaxWatchPages + 1
                                          THEN MaxWatchPages + 2
                                          ELSE MaxWatchPages + 1]
                   /\ c_pc' = "watch_loop"
    /\ UNCHANGED <<logged_in, cookies, login_ok_seen>>
    /\ UNCHANGED notClient

\* the call in flight has returned or raised; the caller goes on
ClientReturn ==
    /\ c_pc \in {"returned", "raised"}
    /\ c_pc' = "idle"
    /\ call' = IdleCall
    /\ log' = <<>>
    /\ UNCHANGED <<logged_in, cookies, login_ok_seen>>
    /\ UNCHANGED notClient

-----------------------------------------------------------------------------
(* Specifications                                                          *)

CleanSpecInit == CleanInit /\ SubOff /\ FileOff /\ ClientOff
CleanNext == CleanCall
CleanSpec == CleanSpecInit /\ [][CleanNext]_vars

SubSpecInit == SubInit /\ CleanOff /\ FileOff /\ ClientOff
SubNext == CheckErrors
SubSpec == SubSpecInit /\ [][SubNext]_vars

FileSpecInit == FileInit /\ CleanOff /\ SubOff /\ ClientOff
FileNext ==
    \/ DownloadCall
    \/ DlPrepare
    \/ DlOpen
    \/ DlWrite
    \/ DlRename
    \/ DlFinally
    \/ HashCall
    \/ FileReturn
    \/ ExtRemove
    \/ Kill
    \/ Restart
FileSpec == FileSpecInit /\ [][FileNext]_vars

SubFileSpecInit == FileInit /\ CleanOff /\ SubOff /\ ClientOff
SubFileNext ==
    \/ SubDownloadCall
    \/ SubDlPrepare
    \/ SubDlOpen
    \/ SubDlWrite
    \/ SubDlRename
    \/ SubHashCall
    \/ FileReturn
SubFileSpec == SubFileSpecInit /\ [][SubFileNext]_vars

ClientSpecInit == ClientInit /\ CleanOff /\ SubOff /\ FileOff
ClientNext ==
    \/ Login
    \/ CheckLogin
    \/ LoginCookies
    \/ ListCall
    \/ ListPage
    \/ ListExit
    \/ GetSubmission
    \/ NukeQueue
    \/ GetAccountSettings
    \/ GetSiteSettings
    \/ QueueCall
    \/ QueuePage
    \/ QueueFinish
    \/ SearchCall
    \/ SearchPage
    \/ SearchExit
    \/ WatchCall
    \/ WatchPage
    \/ ClientReturn
ClientSpec == ClientSpecInit /\ [][ClientNext]_vars

\* get_watchlist against a site with a finite watchlist. The client is
\* single-threaded and its calls block: a loop that can take a step takes it.
WatchSpecInit == WatchInit /\ CleanOff /\ SubOff /\ FileOff
WatchNext ==
    \/ WatchStart
    \/ WatchPageListed
    \/ WatchPagePastBound
    \/ WatchDone
WatchSpec ==
    /\ WatchSpecInit
    /\ [][WatchNext]_vars
    /\ WF_vars(WatchPageListed)
    /\ WF_vars(WatchPagePastBound)

-----------------------------------------------------------------------------
(* Properties of check_errors                                              *)

\* the four failure signatures of a page, in the order of the specification
Signatures(soup) ==
    << soup.title = SYSTEM_ERROR,
       InSoup(IP_BANNED, soup),
       InSoup(MATURE, soup),
       InSoup(NOT_ALLOWED, soup) >>

ErrorsInOrder ==
    <<"SubmissionNotFoundError", "IPBanError", "MaturityError", "AccessError">>

Matching(soup) == {i \in 1..4 : Signatures(soup)[i]}

FirstMatching(soup) ==
    CHOOSE i \in Matching(soup) : \A j \in Matching(soup) : i <= j

\* C1: once check_errors has run on a page, the error it raised is the one of
\* the first signature, in the order system-error title, IP ban, maturity,
\* access denied, that the page matches; it raised nothing exactly when the
\* page matches none of the four.
C1_PriorityOrder ==
    sub_exc # NotCalled =>
        /\ (sub_exc = NoError) <=> (Matching(submission.soup) = {})
        /\ Matching(submission.soup) # {} =>
               sub_exc = ErrorsInOrder[FirstMatching(submission.soup)]

\* a page carrying the IP-ban, the maturity and the access-denied marker at
\* once has been classified as an IP ban
C1_Witness ==
    /\ sub_exc = "IPBanError"
    /\ submission.soup.title = "None"
    /\ {IP_BANNED, MATURE, NOT_ALLOWED} \subseteq submission.soup.body

-----------------------------------------------------------------------------
(* Properties of clean                                                     *)

\* the maximal runs of non-whitespace characters of s, as index pairs
RunBounds(s) ==
    {b \in (1..Len(s)) \X (1..Len(s)) :
        /\ b[1] <= b[2]
        /\ \A k \in b[1]..b[2] : ~isspace(s[k])
        /\ (b[1] = 1 \/ isspace(s[b[1] - 1]))
        /\ (b[2] = Len(s) \/ isspace(s[b[2] + 1]))}

\* the whitespace-separated tokens of s, in the order they occur
TokensOf(s) ==
    [k \in 1..Cardinality(RunBounds(s)) |->
        LET b == CHOOSE c \in RunBounds(s) :
                     Cardinality({d \in RunBounds(s) : d[1] < c[1]}) = k - 1
        IN  SubSeq(s, b[1], b[2])]

NoDoubleWhitespace(s) ==
    \A i \in 1..(Len(s) - 1) : ~(isspace(s[i]) /\ isspace(s[i + 1]))

NoOuterWhitespace(s) ==
    s # <<>> => ~isspace(s[1]) /\ ~isspace(s[Len(s)])

\* C9: for every non-empty text, clean with its default arguments returns a
\* string with no two consecutive whitespace characters and no leading or
\* trailing whitespace, whose whitespace-separated tokens are those of the
\* text in the same order.
C9_Normalised ==
    (clean_pc = "done" /\ ~safe /\ separator = <<" ">> /\ text # <<>>) =>
        /\ NoDoubleWhitespace(cleaned)
        /\ NoOuterWhitespace(cleaned)
        /\ TokensOf(cleaned) = TokensOf(text)

\* a text with leading whitespace and a run of two whitespace characters
\* between two tokens has been cleaned
C9_Witness ==
    /\ clean_pc = "done" /\ ~safe /\ separator = <<" ">>
    /\ text = <<"\t", "a", " ", "\n", "!">>
    /\ cleaned = <<"a", " ", "!">>

-----------------------------------------------------------------------------
(* Properties of FAFile.download and FAFile.calculate_hash                 *)

\* a download call has ended by returning or by raising
DlEnded == file_pc \in {"returned", "raised"}

\* the final path of the call in flight: the destination without its
\* extension, a dot, and the extension of the url
FinalPath == path_final_of(dl.destination, fafile)

\* the complete content the remote end served to the call in flight
Served == [exists |-> TRUE, data |-> Flatten(dl.stream)]

\* the remote fetch of the ended call was established and a file existed at
\* the final path when the call was made
C5_Case == DlEnded /\ dl.exc # "SubmissionFileNotAccessible" /\ dl.prev_fs[FinalPath].exists

\* the four outcomes of C5, for a call whose writes and rename do not fail
C5_Outcome ==
    /\ (dl.replace /\ dl.skip) =>
           file_pc = "raised" /\ dl.exc = "RuntimeError" /\ fs = dl.prev_fs
    /\ (dl.replace /\ ~dl.skip) =>
           \/ file_pc = "returned" /\ fs[FinalPath] = Served
           \/ file_pc = "raised" /\ dl.exc \in {"OSError", "IOError"}
    /\ (~dl.replace /\ dl.skip) =>
           file_pc = "returned" /\ fs = dl.prev_fs /\ fafile._local_path = dl.prev_local
    /\ (~dl.replace /\ ~dl.skip) =>
           file_pc = "raised" /\ dl.exc = "FileExistsError" /\ fs = dl.prev_fs

\* C5: a download whose remote fetch is established and whose final path
\* already holds a file raises an argument error for replace and skip
\* together, overwrites the file for replace, returns without writing for
\* skip (file and cached local path unchanged), and raises a file-exists
\* error for neither, leaving the file unchanged.
C5_ExistingFilePolicy == C5_Case => C5_Outcome

\* the same statement for the destinations that name a directory: for these
\* the code does what C5 says
C5_PolicyInsideDirectory ==
    (C5_Case /\ dirname(strip_extension(dl.destination)) # <<>>) => C5_Outcome

\* C6: when a download that has opened its temporary file ends, by returning
\* or by raising, no file is left at the temporary path; when it ends by
\* raising, an error is pending for the caller and the cached local path is
\* the one the FAFile had before the call.
C6_NoTemporaryLeftBehind ==
    (DlEnded /\ dl.opened) =>
        /\ ~fs[path_tmp_of(dl.destination)].exists
        /\ file_pc = "raised" =>
               dl.exc # None /\ fafile._local_path = dl.prev_local
        /\ file_pc = "returned" => dl.exc = None

\* a download has raised after a chunk was written and before the last one
C6_Witness ==
    /\ file_pc = "raised"
    /\ dl.opened
    /\ dl.exc = "IOError"
    /\ dl.r # <<>>
    /\ Len(dl.r) < Len(dl.stream)
    /\ dl.prev_fs[path_tmp_of(dl.destination)].exists

\* C7: from the call of a download on, whether it runs to its end, raises or
\* is killed, the final path holds what it held when the call was made (a
\* file or none) or the complete content the remote end served; and up to
\* the rename, which comes after the last chunk, it holds what it held when
\* the call was made.
C7_FinalPathNeverPartial ==
    /\ file_pc \in {"prepare", "open", "write", "finally", "returned", "raised", "killed"} =>
           fs[FinalPath] \in {dl.prev_fs[FinalPath], Served}
    /\ file_pc \in {"prepare", "open", "write"} =>
           fs[FinalPath] = dl.prev_fs[FinalPath]
    /\ (file_pc \in {"finally", "returned", "raised", "killed"} /\ dl.r # <<>>) =>
           fs[FinalPath] = dl.prev_fs[FinalPath]

\* a replacing download was killed with part of the content written: the
\* final path still holds the old file
C7_Witness ==
    /\ file_pc = "killed"
    /\ dl.replace
    /\ dl.prev_fs[FinalPath].exists
    /\ fs[path_tmp_of(dl.destination)] = [exists |-> TRUE, data |-> <<1>>]
    /\ dl.r # <<>>
    /\ fs[FinalPath] = OldFile

\* C8: a calculate_hash call with an available algorithm, made when a download
\* of this FAFile has completed and the file it wrote is still there, requests
\* nothing and digests that file; made when no download has completed or the
\* file is gone, it requests the url once and leaves the file system as it was.
C8_HashUsesDownloadedFile ==
    [][ (file_pc = "idle" /\ file_pc' = "hashed"
            /\ hashed'.algorithm \in algorithms_available) =>
          IF downloaded # NoPath /\ fs[downloaded].exists
          THEN /\ net' = <<>>
               /\ hashed'.exc = None
               /\ hashed'.digest = Digest(hashed'.algorithm, fs[downloaded].data)
               /\ fs' = fs
          ELSE /\ net' = <<fafile._url>>
               /\ fs' = fs ]_vars

\* a hash has been taken from the file a completed download wrote
C8_Witness ==
    /\ file_pc = "hashed"
    /\ downloaded # NoPath
    /\ fs[downloaded] = [exists |-> TRUE, data |-> <<1, 2>>]
    /\ net = <<>>
    /\ hashed.digest = Digest("sha256", <<1, 2>>)

-----------------------------------------------------------------------------
(* Properties of the client                                                *)

\* the client call in flight has ended
CallEnded == c_pc \in {"returned", "raised"}

\* a step that makes a call of one of the operations ops
CallOf(ops) == c_pc = "idle" /\ c_pc' # "idle" /\ call'.op \in ops

\* the requests in a log, in order
Requests(l) == SelectSeq(l, LAMBDA e : e.kind \in {"GET", "POST"})

\* the operations that need a login
LoginRequiredOps ==
    {"get_user_gallery", "get_user_scraps", "get_user_favorites", "get_user_submissions",
     "get_queue", "nuke_queue", "get_submission", "get_watchlist",
     "get_account_settings", "get_site_settings"}

\* is id the decimal string of the integer n
IsDecimalOf(id, n) ==
    /\ id # <<>>
    /\ \A k \in DOMAIN id : \E d \in 1..10 : Digits[d] = id[k]
    /\ (Len(id) = 1 \/ id[1] # "0")
    /\ int(id) = n

\* is id the string form of the argument of get_submission
IsStringFormOf(id, a) ==
    CASE a.type = "str"      -> id = a.value
      [] a.type = "int"      -> IsDecimalOf(id, a.value)
      [] a.type = "FAResult" -> IsDecimalOf(id, a.value.id)

\* C2: a get_submission call on a logged-in client that has ended made one
\* request; if the page it fetched matches one of the four failure
\* signatures the call raised the classifier's error for it and returned no
\* Submission; if it matches none the call returned a Submission of that
\* page whose id is the string form of the id (or of the FAResult's id) asked for.
C2_ClassifiedBeforeReturn ==
    (call.op = "get_submission" /\ CallEnded /\ logged_in) =>
        /\ Len(log) = 1
        /\ log[1].kind = "GET"
        /\ LET page == log[1].resp
           IN  /\ Matching(page) # {} =>
                      /\ c_pc = "raised"
                      /\ call.exc = ErrorsInOrder[FirstMatching(page)]
                      /\ call.ret = None
               /\ Matching(page) = {} =>
                      /\ c_pc = "returned"
                      /\ call.exc = None
                      /\ call.ret.soup = page
                      /\ IsStringFormOf(call.ret.id, call.arg)

\* a Submission has been returned for an FAResult, and its id is "305"
C2_Witness ==
    /\ call.op = "get_submission"
    /\ c_pc = "returned"
    /\ call.arg.type = "FAResult"
    /\ call.ret.id = <<"3", "0", "5">>
    /\ FILLER \in call.ret.soup.body

\* C3: a call of an operation that needs a login, made while logged_in is
\* false, raises NotLoggedInError, issues no request and leaves logged_in and
\* the session's cookies as they were.
C3_NotLoggedInRaises ==
    [][ (CallOf(LoginRequiredOps) /\ ~logged_in) =>
           /\ c_pc' = "raised"
           /\ call'.exc = "NotLoggedInError"
           /\ log' = <<>>
           /\ logged_in' = logged_in
           /\ cookies' = cookies ]_vars

\* get_queue has raised NotLoggedInError on a client whose login was rejected
C3_Witness ==
    /\ c_pc = "raised"
    /\ call.op = "get_queue"
    /\ call.exc = "NotLoggedInError"
    /\ ~logged_in
    /\ cookies # EmptyJar
    /\ log = <<>>

\* C4: a login_cookies call installs the given cookies in the session and
\* fetches the home page once; if the page has the username marker the call
\* sets logged_in and returns, otherwise it raises LoginError and leaves
\* logged_in as it was. logged_in is true only if some login_cookies call
\* saw the marker.
C4_LoginCookies ==
    /\ [](logged_in => login_ok_seen)
    /\ [][ CallOf({"login_cookies"}) =>
             /\ \A n \in DOMAIN call'.arg :
                    n \in DOMAIN cookies' /\ cookies'[n] = call'.arg[n]
             /\ \A n \in DOMAIN cookies \ DOMAIN call'.arg :
                    n \in DOMAIN cookies' /\ cookies'[n] = cookies[n]
             /\ Len(log') = 1
             /\ log'[1].kind = "GET"
             /\ log'[1].url = <<"home">>
             /\ IF log'[1].resp.my_username
                THEN logged_in' /\ c_pc' = "returned"
                ELSE /\ c_pc' = "raised"
                     /\ call'.exc = "LoginError"
                     /\ logged_in' = logged_in ]_vars

\* a second login_cookies call has succeeded, with both cookies installed
C4_Witness ==
    /\ c_pc = "returned"
    /\ call.op = "login_cookies"
    /\ logged_in
    /\ log[1].resp.my_username
    /\ DOMAIN cookies = {"a", "b"}

\* the figures of the pages without the "no results" marker, in order
RECURSIVE FiguresOf(_)
FiguresOf(gets) ==
    IF gets = <<>> THEN <<>>
    ELSE (IF gets[1].resp.no_images THEN <<>> ELSE gets[1].resp.figures)
         \o FiguresOf(Tail1(gets))

\* is r the entry of the figure f: f's id is "sid-" and the decimal string of
\* r's id, and r's kind is the type of f's class
IsEntryOf(r, f) ==
    /\ f.id = <<"s", "i", "d", "-">> \o str(r.id)
    /\ r.kind = f.class.t

SingleListingOps == {"get_user_gallery", "get_user_scraps", "get_user_favorites"}

\* C10: in a gallery, scraps or favorites call with page=p and num_pages=n on
\* a logged-in client, the k-th request is for page p+k-1 of the sub-page, no
\* more than n requests are made, no request follows a page with the
\* "no results" marker, the entries collected are those of the requested
\* pages without the marker, in page and document order; the call returns
\* them, after n requests or after a page with the marker.
C10_ListingPages ==
    (call.op \in SingleListingOps /\ c_pc \in {"list_loop", "returned"}) =>
        LET g    == Requests(log)
            figs == FiguresOf(g)
        IN  /\ Len(g) <= call.num_pages
            /\ \A k \in 1..Len(g) :
                   /\ g[k].kind = "GET"
                   /\ g[k].url[1] = SubPagesOf[call.op][1]
                   /\ g[k].url[3] = call.arg_page + k - 1
            /\ \A k \in 1..(Len(g) - 1) : ~g[k].resp.no_images
            /\ Len(call.results) = Len(figs)
            /\ \A j \in 1..Len(figs) : IsEntryOf(call.results[j], figs[j])
            /\ c_pc = "returned" =>
                   /\ call.ret = call.results
                   /\ \/ Len(g) = call.num_pages
                      \/ Len(g) >= 1 /\ g[Len(g)].resp.no_images
            /\ (c_pc = "list_loop" /\ Len(g) >= 1) => ~g[Len(g)].resp.no_images

\* a favorites call from page 2 for 3 pages has returned the three entries of
\* pages 2 and 3, the third request having met the marker on a page with a figure
C10_Witness ==
    /\ call.op = "get_user_favorites"
    /\ c_pc = "returned"
    /\ call.arg_page = 2
    /\ call.num_pages = 3
    /\ Len(Requests(log)) = 3
    /\ log[Len(log)].resp = [no_images |-> TRUE, figures |-> <<Fig7>>]
    /\ call.ret = <<FAResult(7, "image"), FAResult(12, "text"), FAResult(305, "flash")>>

-----------------------------------------------------------------------------
(* Properties of the pagination loops                                      *)

\* the operations that run one pagination loop per call
PaginationOps == SingleListingOps \cup {"get_queue", "search", "search_tags"}

\* is the entry e of a log the request of a listing page (the POST of
\* nuke_queue is a request but not a page request)
IsPageRequest(e) ==
    /\ e.kind \in {"GET", "POST"}
    /\ e.url # <<"msg", "submissions">>

\* the page requests in a log, in order
PageRequests(l) == SelectSeq(l, IsPageRequest)

\* the positions of the page requests in a log
PageRequestAt(l) == {k \in DOMAIN l : IsPageRequest(l[k])}

\* C11: within one call of a pagination loop (gallery, scraps, favorites,
\* get_queue, search), a sleep of the fixed delay lies between every two
\* consecutive page requests, and no sleep comes before the first page request.
C11_SleepBetweenPages ==
    (call.op \in PaginationOps) =>
        /\ \A i, j \in PageRequestAt(log) :
               (i < j /\ \A m \in PageRequestAt(log) : ~(i < m /\ m < j)) =>
                   \E k \in (i + 1)..(j - 1) : log[k] = Sleep(WAIT_TIME)
        /\ \A k \in DOMAIN log :
               log[k].kind = "sleep" => \E i \in PageRequestAt(log) : i < k

-----------------------------------------------------------------------------
(* Properties of get_queue                                                 *)

\* is the entry e of a log the POST of nuke_queue
IsNuke(e) ==
    /\ e.kind = "POST"
    /\ e.url = <<"msg", "submissions">>
    /\ e.data = "Nuke+all+Submissions"

\* the positions of the nuke requests in a log
NukeAt(l) == {k \in DOMAIN l : IsNuke(l[k])}

\* the nuke request was fired exactly once, after every page request
NukedOnceAtEnd(l) ==
    /\ Cardinality(NukeAt(l)) = 1
    /\ \A k \in NukeAt(l) : \A i \in PageRequestAt(l) : i < k

\* a get_queue call is under way or has ended on a logged-in client, with
\* nuke unset
QueueNoNuke == call.op = "get_queue" /\ logged_in /\ ~call.arg

\* a get_queue call has returned normally on a logged-in client
QueueReturned == call.op = "get_queue" /\ c_pc = "returned" /\ logged_in

\* C12 as stated: every get_queue call with nuke set that has returned
\* normally on a logged-in client fired the nuke request exactly once, after
\* its last listing page request; a call with nuke unset never fires it.
C12_NukeFiredOnce ==
    /\ (QueueReturned /\ call.arg) => NukedOnceAtEnd(log)
    /\ QueueNoNuke => NukeAt(log) = {}

\* C12 as amended: a get_queue call with nuke set that has returned normally
\* after a first page that lists submissions fired the nuke request exactly
\* once, as the last thing it did; a call whose first page says there are no
\* submissions to list returned the empty list after that one request without
\* firing it; no nuke request is fired while the loop runs, and a call with
\* nuke unset never fires it.
C12_NukeFiredOnceIfListed ==
    /\ (QueueReturned /\ call.arg /\ ~log[1].resp.empty) =>
           /\ NukedOnceAtEnd(log)
           /\ NukeAt(log) = {Len(log)}
    /\ (QueueReturned /\ log[1].resp.empty) =>
           /\ Len(log) = 1
           /\ call.ret = <<>>
    /\ (call.op = "get_queue" /\ c_pc \in {"queue_loop", "queue_after", "raised"}) =>
           NukeAt(log) = {}
    /\ QueueNoNuke => NukeAt(log) = {}

\* a get_queue call with nuke set has returned after three page requests, the
\* nuke request coming last, after the sleep of the loop
C12_Witness ==
    /\ QueueReturned
    /\ call.arg
    /\ Len(PageRequests(log)) = 3
    /\ IsNuke(log[Len(log)])
    /\ log[Len(log) - 1] = Sleep(1)

-----------------------------------------------------------------------------
(* Properties of search                                                    *)

SearchOps == {"search", "search_tags"}

\* the form fields of the rating and type flags, in the order of the arguments
RatingFields == <<"rating_general", "rating_mature", "rating_adult">>
TypeFields ==
    <<"type_art", "type_flash", "type_photo", "type_music", "type_story", "type_poetry">>

\* the flags a search call asks for: the arguments, or the defaults of the
\* signature's documentation when the argument is left out
FlagsAsked(given, default) == IF given = None THEN default ELSE given

\* the form carries the flags: "on" for a set flag, no value for an unset one
CarriesFlags(form, fields, flags) ==
    \A i \in DOMAIN fields :
        form[fields[i]] = (IF flags[i] # 0 THEN "on" ELSE None)

\* the figures of the result pages, in order
RECURSIVE SearchFiguresOf(_)
SearchFiguresOf(posts) ==
    IF posts = <<>> THEN <<>>
    ELSE posts[1].resp.figures \o SearchFiguresOf(Tail1(posts))

\* C13: in a search call with page=p and num_pages=n the k-th request is a
\* POST of the form whose page field is the decimal string of p+k-1; no more
\* than n are made and none follows a page without result entries; the
\* entries collected are those of the pages posted for, in page and document
\* order, and the call returns them after n posts or after a page without
\* entries; in every form posted a set rating or type flag is "on" and an
\* unset one carries no value.
C13_SearchPosts ==
    (call.op \in SearchOps /\ c_pc \in {"search_loop", "returned"}) =>
        LET g    == Requests(log)
            figs == SearchFiguresOf(g)
        IN  /\ Len(g) <= call.num_pages
            /\ Len(g) = Len(log) - Cardinality({k \in DOMAIN log : log[k].kind = "sleep"})
            /\ \A k \in 1..Len(g) :
                   /\ g[k].kind = "POST"
                   /\ g[k].url = <<"search">>
                   /\ IsDecimalOf(g[k].data.page, call.arg_page + k - 1)
                   /\ CarriesFlags(g[k].data, RatingFields,
                                   FlagsAsked(call.arg.ratings, <<1, 1, 1>>))
                   /\ CarriesFlags(g[k].data, TypeFields,
                                   FlagsAsked(call.arg.types, <<1, 0, 1, 0, 0, 0>>))
            /\ \A k \in 1..(Len(g) - 1) : g[k].resp.figures # <<>>
            /\ Len(call.results) = Len(figs)
            /\ \A j \in 1..Len(figs) : IsEntryOf(call.results[j], figs[j])
            /\ c_pc = "returned" =>
                   /\ call.ret = call.results
                   /\ \/ Len(g) = call.num_pages
                      \/ Len(g) >= 1 /\ g[Len(g)].resp.figures = <<>>
            /\ (c_pc = "search_loop" /\ Len(g) >= 1) => g[Len(g)].resp.figures # <<>>

\* a search from page 2 for 3 pages, general rating only, has returned the
\* three entries of pages 2 and 3 after a third post, for page 4, found nothing
C13_Witness ==
    /\ call.op = "search"
    /\ c_pc = "returned"
    /\ call.arg_page = 2
    /\ call.num_pages = 3
    /\ <<1, 0, 0>> = call.arg.ratings
    /\ Len(Requests(log)) = 3
    /\ log[Len(log)].kind = "POST"
    /\ log[Len(log)].data.page = <<"4">>
    /\ log[Len(log)].data.rating_general = "on"
    /\ log[Len(log)].data.rating_mature = None
    /\ log[Len(log)].resp.figures = <<>>
    /\ call.ret = <<FAResult(7, "image"), FAResult(12, "text"), FAResult(305, "flash")>>

-----------------------------------------------------------------------------
(* Properties of get_watchlist                                             *)

\* the usernames of the links of the pages fetched, in page and document order
RECURSIVE LinkNamesOf(_)
LinkNamesOf(gets) ==
    IF gets = <<>> THEN <<>>
    ELSE [k \in DOMAIN gets[1].resp |-> clean(gets[1].resp[k], FALSE, <<" ">>)]
         \o LinkNamesOf(Tail1(gets))

\* the positions in names whose username stands at an earlier position too
RepeatsIn(names) == {j \in DOMAIN names : \E i \in 1..(j - 1) : names[i] = names[j]}

\* the number of links on the pages before the last one fetched
LinksBeforeLastPage(gets) == Len(LinkNamesOf(Front(gets)))

\* C14: while get_watchlist runs it has requested pages 1, 2, ... in order
\* and met no username twice; when it has returned, the last link it read is
\* the first one in page and document order whose username had been met
\* before, that link is on the last page requested, and the result is the
\* usernames met before it, each once, in the order of first appearance.
C14_WatchlistFirstSeen ==
    (call.op = "get_watchlist" /\ c_pc \in {"watch_loop", "returned"}) =>
        LET names   == LinkNamesOf(log)
            repeats == RepeatsIn(names)
        IN  /\ \A k \in DOMAIN log :
                   /\ log[k].kind = "GET"
                   /\ log[k].url[1] = "controls"
                   /\ log[k].url[2] = "buddylist"
                   /\ IsDecimalOf(log[k].url[3], k)
            /\ \A i, j \in DOMAIN call.results :
                   i # j => call.results[i] # call.results[j]
            /\ c_pc = "watch_loop" =>
                   /\ repeats = {}
                   /\ call.results = names
            /\ c_pc = "returned" =>
                   /\ repeats # {}
                   /\ \A r \in repeats :
                          (\A q \in repeats : r <= q) =>
                              /\ r > LinksBeforeLastPage(log)
                              /\ call.ret = SubSeq(names, 1, r - 1)

\* get_watchlist has returned on its second page: "-" was new there, and the
\* link after it names "a" again, written with a trailing blank
C14_Witness ==
    /\ call.op = "get_watchlist"
    /\ c_pc = "returned"
    /\ Len(log) = 2
    /\ log[1].resp = << <<"a">> >>
    /\ log[2].resp = << <<"-">>, <<"a", " ">> >>
    /\ call.ret = << <<"a">>, <<"-">> >>

-----------------------------------------------------------------------------
(* Properties of the file reference of a Submission                        *)

\* the temporary path of the call in flight
TmpPath == splitext(dl.destination)[1] \o PART

\* the download in flight has ended; its remote fetch was established, it
\* opened its temporary file and wrote every chunk served without a failure,
\* and nothing was at the final path when the call was made
C15_Case ==
    /\ DlEnded
    /\ dl.opened
    /\ dl.r = <<>>
    /\ dl.exc \notin {"SubmissionFileNotAccessible", "OSError", "IOError"}
    /\ ~dl.prev_fs[FinalPath].exists

\* C15: a download on the file reference of a Submission whose remote fetch
\* and writes succeed, with nothing at the final path, returns normally with
\* the content served at destination-without-extension + "." + the extension
\* of the url, leaves no file at the temporary path, and stores that final
\* path in the reference, so that calculate_hash reads the local file.
C15_SubmissionFileDownload ==
    C15_Case =>
        /\ file_pc = "returned"
        /\ dl.exc = None
        /\ fs[FinalPath] = Served
        /\ ~fs[TmpPath].exists
        /\ fafile._local_path = FinalPath
        /\ use_local(fafile)

\* what the code does in that case: AttributeError, the content left at the
\* temporary path, nothing at the final path, no path stored
C15_AttributeErrorInstead ==
    C15_Case =>
        /\ file_pc = "raised"
        /\ dl.exc = "AttributeError"
        /\ fs[TmpPath] = Served
        /\ ~fs[FinalPath].exists
        /\ fafile._local_path = dl.prev_local
        /\ fafile._local_path = NoPath

-----------------------------------------------------------------------------
(* Termination of get_watchlist                                            *)

\* C16: on a logged-in client, against a site whose watchlist is finite and
\* that serves a page without links for every page number past the last one
\* (an empty watchlist included), a get_watchlist call that is in its loop
\* eventually returns.
C16_WatchlistReturns ==
    (call.op = "get_watchlist" /\ c_pc = "watch_loop") ~> (c_pc = "returned")

\* what keeps the call from returning: a page without links leaves the list
\* of usernames as it was and the loop running
C16_EmptyPageKeepsLooping ==
    [][ ( /\ call.op = "get_watchlist"
          /\ c_pc = "watch_loop"
          /\ log' # log
          /\ log'[Len(log')].resp = <<>> ) =>
            /\ c_pc' = "watch_loop"
            /\ call'.results = call.results ]_vars

-----------------------------------------------------------------------------
(* Properties of logged_in                                                 *)

\* C17: no step of the client takes logged_in from true to false; a
\* login_cookies call that raises raises LoginError, leaves logged_in as it
\* was, and leaves the cookies it was given installed in the session.
C17_StaysLoggedIn ==
    [][ /\ logged_in => logged_in'
        /\ (CallOf({"login_cookies"}) /\ c_pc' = "raised") =>
              /\ call'.exc = "LoginError"
              /\ logged_in' = logged_in
              /\ \A n \in DOMAIN call'.arg :
                     n \in DOMAIN cookies' /\ cookies'[n] = call'.arg[n] ]_vars

\* a logged-in client has had a later login_cookies call rejected: it is
\* still logged in, and the rejected cookie "b" sits next to the cookie "a"
C17_Witness ==
    /\ c_pc = "raised"
    /\ call.op = "login_cookies"
    /\ call.exc = "LoginError"
    /\ logged_in
    /\ DOMAIN call.arg = {"b"}
    /\ DOMAIN cookies = {"a", "b"}
    /\ ~log[1].resp.my_username

-----------------------------------------------------------------------------
(* Properties of the pages of get_queue                                    *)

\* the figures of the queue pages fetched, in order
RECURSIVE QueueFiguresOf(_)
QueueFiguresOf(gets) ==
    IF gets = <<>> THEN <<>>
    ELSE gets[1].resp.figures \o QueueFiguresOf(Tail1(gets))

\* the results are the entries of the figures figs, in order
AreEntriesOf(results, figs) ==
    /\ Len(results) = Len(figs)
    /\ \A j \in 1..Len(figs) : IsEntryOf(results[j], figs[j])

\* the smaller of two numbers
Min(a, b) == IF a <= b THEN a ELSE b

\* C18: a get_queue call with num_pages=n that has returned normally on a
\* logged-in client made at most n listing page requests, each after the
\* first for the "next page" link of the page before it, none after a page
\* whose link holds the old@ sentinel, and returned the entries of every
\* page it requested, in order: it requested no page it did not parse.
C18_QueueParsesWhatItRequests ==
    QueueReturned =>
        LET g == PageRequests(log)
        IN  /\ Len(g) <= call.num_pages
            /\ \A k \in 2..Len(g) :
                   /\ g[k].url = g[k - 1].resp.more
                   /\ find(g[k - 1].resp.more, OLD_AT) < 0
            /\ AreEntriesOf(call.ret, QueueFiguresOf(g))

\* what the code does: the first page is requested before the loop and the
\* next one at the end of every iteration, so up to n+1 pages are requested
\* and the entries returned are those of the first n of them
C18_QueueParsesAllButPrefetched ==
    QueueReturned =>
        LET g == PageRequests(log)
        IN  /\ Len(g) >= 1
            /\ Len(g) <= call.num_pages + 1
            /\ \A k \in 2..Len(g) :
                   /\ g[k].url = g[k - 1].resp.more
                   /\ find(g[k - 1].resp.more, OLD_AT) < 0
            /\ AreEntriesOf(call.ret,
                            QueueFiguresOf(SubSeq(g, 1, Min(Len(g), call.num_pages))))

====
